---- MODULE Spec2Model ----
(***************************************************************************)
(* Model of the refinement-list connector (connectRefinementList), of the  *)
(* query-state operations of the search client it drives, and of the       *)
(* parameter-merge connector (connectConfigure).                           *)
(*                                                                         *)
(* A query state (SearchParameters) is a record                            *)
(*   facets, disjunctiveFacets        : sequences of attribute names       *)
(*   facetsRefinements, facetsExcludes,                                    *)
(*   disjunctiveFacetsRefinements     : functions attribute -> sequence    *)
(*                                      of values (a missing key is a      *)
(*                                      missing domain element)            *)
(*   maxValuesPerFacet                : a number, or Undefined             *)
(* The `highlighted` field of items is left out: it is produced by the     *)
(* escaping utilities, which no property below reads.                      *)
(***************************************************************************)
EXTENDS Integers, Sequences, FiniteSets, TLC

\* ---------------------------------------------------------------- bounds
MaxLimit == 1
MaxMaxValuesPerFacet == 3
MaxUiValues == 2
MaxFacetValues == 3
MaxInFlight == 2

\* ------------------------------------------------------- program constants
attribute == "brand"
otherAttribute == "color"
Undefined == -1

Attrs == {attribute, otherAttribute}
Values == {"Apple", "Sony"}

\* ------------------------------------------------------------ sequences
Range(s) == {s[i] : i \in DOMAIN s}

Contains(s, v) == \E i \in DOMAIN s : s[i] = v

Max(a, b) == IF a >= b THEN a ELSE b

Min(a, b) == IF a <= b THEN a ELSE b

Omit(f, a) == [k \in (DOMAIN f) \ {a} |-> f[k]]

Assign(f, a, v) == [k \in (DOMAIN f) \cup {a} |-> IF k = a THEN v ELSE f[k]]

Filter(s, a) == SelectSeq(s, LAMBDA x : x # a)

\* ------------------------------------------- widget parameters (validated)
Operators == {"and", "or"}

TransformNames == {"identity", "dropLast", "addOne"}

AllWidgetParams ==
    [operator : Operators, limit : 1..MaxLimit, showMore : BOOLEAN,
     showMoreLimit : 1..(MaxLimit + 1), transformItems : TransformNames]

ParamsAccepted_strictlyLess(p) == ~(p.showMore = TRUE /\ p.showMoreLimit < p.limit)

ParamsAccepted(p) == ~(p.showMore = TRUE /\ p.showMoreLimit <= p.limit)

ValidWidgetParams == {p \in AllWidgetParams : ParamsAccepted(p)}

\* The connectors explored: limit at its bound and showMoreLimit above it.
WidgetParamsInputs ==
    {p \in ValidWidgetParams :
        p.limit = MaxLimit /\ p.showMoreLimit = MaxLimit + 1}

\* --------------------------------------------- SearchParameters (client)
isConjunctiveFacet(sp, a) == Contains(sp.facets, a)

isDisjunctiveFacet(sp, a) == Contains(sp.disjunctiveFacets, a)

getConjunctiveRefinements(sp, a) ==
    IF ~isConjunctiveFacet(sp, a) THEN <<>>
    ELSE IF a \in DOMAIN sp.facetsRefinements THEN sp.facetsRefinements[a]
    ELSE <<>>

getDisjunctiveRefinements(sp, a) ==
    IF ~isDisjunctiveFacet(sp, a) THEN <<>>
    ELSE IF a \in DOMAIN sp.disjunctiveFacetsRefinements
         THEN sp.disjunctiveFacetsRefinements[a]
    ELSE <<>>

clearRefinements_keep(sp, a) == sp

clearRefinements(sp, a) ==
    [sp EXCEPT !.facetsRefinements = Omit(@, a),
               !.facetsExcludes = Omit(@, a),
               !.disjunctiveFacetsRefinements = Omit(@, a)]

addFacet(sp, a) ==
    IF isConjunctiveFacet(sp, a) THEN sp
    ELSE [sp EXCEPT !.facets = Append(@, a)]

addDisjunctiveFacet(sp, a) ==
    IF isDisjunctiveFacet(sp, a) THEN sp
    ELSE [sp EXCEPT !.disjunctiveFacets = Append(@, a)]

removeFacet(sp, a) ==
    IF ~isConjunctiveFacet(sp, a) THEN sp
    ELSE [clearRefinements(sp, a) EXCEPT !.facets = Filter(sp.facets, a)]

removeDisjunctiveFacet(sp, a) ==
    IF ~isDisjunctiveFacet(sp, a) THEN sp
    ELSE [clearRefinements(sp, a) EXCEPT
              !.disjunctiveFacets = Filter(sp.disjunctiveFacets, a)]

addRefinement(refinementList, a, v) ==
    IF a \in DOMAIN refinementList /\ Contains(refinementList[a], v)
    THEN refinementList
    ELSE Assign(refinementList, a,
                IF a \in DOMAIN refinementList
                THEN Append(refinementList[a], v) ELSE <<v>>)

Thrown == [thrown |-> "Error"]

addFacetRefinement(sp, a, v) ==
    IF ~isConjunctiveFacet(sp, a) THEN Thrown
    ELSE [sp EXCEPT !.facetsRefinements = addRefinement(@, a, v)]

addDisjunctiveFacetRefinement(sp, a, v) ==
    IF ~isDisjunctiveFacet(sp, a) THEN Thrown
    ELSE [sp EXCEPT !.disjunctiveFacetsRefinements = addRefinement(@, a, v)]

setMaxValuesPerFacet(sp, n) == [sp EXCEPT !.maxValuesPerFacet = n]

\* ------------------------------------------------ refinement-list projector
\* uiState.refinementList is a function attribute -> sequence of values; the
\* rest of the UI state (other widget categories) is the field `configure`.
getWidgetState_wrongChannel(p, ui, sp) ==
    LET values == IF p.operator = "and"
                  THEN getDisjunctiveRefinements(sp, attribute)
                  ELSE getConjunctiveRefinements(sp, attribute)
    IN  IF Len(values) = 0 THEN ui
        ELSE [ui EXCEPT !.refinementList = Assign(@, attribute, values)]

getWidgetState(p, ui, sp) ==
    LET values == IF p.operator = "or"
                  THEN getDisjunctiveRefinements(sp, attribute)
                  ELSE getConjunctiveRefinements(sp, attribute)
    IN   IF Len(values) = 0 THEN ui
        ELSE [ui EXCEPT !.refinementList = Assign(@, attribute, values)]

RECURSIVE addAll(_, _, _)
addAll(sp, values, isDisjunctive) ==
    IF values = <<>> THEN sp
    ELSE addAll(IF isDisjunctive
                THEN addDisjunctiveFacetRefinement(sp, attribute, Head(values))
                ELSE addFacetRefinement(sp, attribute, Head(values)),
                Tail(values), isDisjunctive)

withFacetConfiguration_swapped(p, withoutRefinements) ==
    IF p.operator = "or" THEN addFacet(withoutRefinements, attribute)
    ELSE addDisjunctiveFacet(withoutRefinements, attribute)

withFacetConfiguration(p, withoutRefinements) ==
    IF p.operator = "or" THEN addDisjunctiveFacet(withoutRefinements, attribute)
    ELSE addFacet(withoutRefinements, attribute)

nextMaxValuesPerFacet_additive(p, sp) ==
    (IF sp.maxValuesPerFacet = Undefined THEN 0 ELSE sp.maxValuesPerFacet)
        + (IF p.showMore THEN p.showMoreLimit ELSE p.limit)

nextMaxValuesPerFacet_overwrite(p, sp) ==
    IF p.showMore THEN p.showMoreLimit ELSE p.limit

nextMaxValuesPerFacet(p, sp) ==
    LET currentMaxValuesPerFacet ==
            IF sp.maxValuesPerFacet = Undefined THEN 0 ELSE sp.maxValuesPerFacet
    IN  Max(currentMaxValuesPerFacet,
            IF p.showMore THEN p.showMoreLimit ELSE p.limit)

getWidgetSearchParameters(p, sp, ui) ==
    LET isDisjunctive == p.operator = "or"
        hasValues == attribute \in DOMAIN ui.refinementList
        withoutRefinements == clearRefinements(sp, attribute)
        withFacets == withFacetConfiguration(p, withoutRefinements)
        withMaxValuesPerFacet ==
            setMaxValuesPerFacet(withFacets, nextMaxValuesPerFacet(p, withFacets))
    IN  IF ~hasValues
        THEN IF isDisjunctive
             THEN [withMaxValuesPerFacet EXCEPT
                      !.disjunctiveFacetsRefinements = Assign(@, attribute, <<>>)]
             ELSE [withMaxValuesPerFacet EXCEPT
                      !.facetsRefinements = Assign(@, attribute, <<>>)]
        ELSE addAll(withMaxValuesPerFacet, ui.refinementList[attribute],
                    isDisjunctive)

dispose_wrongChannel(p, sp) ==
    LET withoutMaxValuesPerFacet == setMaxValuesPerFacet(sp, Undefined)
    IN  IF p.operator = "and"
        THEN removeDisjunctiveFacet(withoutMaxValuesPerFacet, attribute)
        ELSE removeFacet(withoutMaxValuesPerFacet, attribute)

dispose(p, sp) ==
    LET withoutMaxValuesPerFacet == setMaxValuesPerFacet(sp, Undefined)
    IN  IF p.operator = "and"
        THEN removeFacet(withoutMaxValuesPerFacet, attribute)
        ELSE removeDisjunctiveFacet(withoutMaxValuesPerFacet, attribute)

\* ------------------------------------------------------------------ state
VARIABLES
    searchParameters,           \* the client's query state (helper.state)
    uiState,                    \* the UI state held by the state-sync driver
    widgetParams,               \* parameters of the connector instance
    phase,                      \* "UNCONSTRUCTED", "UNINIT", "READY" or "DISPOSED"
    lastResultsFromMainSearch,  \* items cached by the last primary render
    hasExhaustiveItems,         \* exhaustiveness flag
    isShowingMore,              \* paginator mode (createShowMore)
    lastRenderOptions,          \* paginator's recorded render (createShowMore)
    pending,                    \* sub-searches in flight, in issue order
    rendered,                   \* last payload handed to renderFn
    lastCall                    \* the last handler that ran and its effects

vars == <<searchParameters, uiState, widgetParams, phase,
          lastResultsFromMainSearch, hasExhaustiveItems, isShowingMore,
          lastRenderOptions, pending, rendered, lastCall>>

connectorVars == <<widgetParams, phase, lastResultsFromMainSearch,
                   hasExhaustiveItems, isShowingMore, lastRenderOptions,
                   pending, rendered>>

\* ------------------------------------------------------- bounded inputs
RefinementLists ==
    {s \in UNION {[1..n -> Values] : n \in 0..Cardinality(Values)} :
        \A i, j \in DOMAIN s : i # j => s[i] # s[j]}

MaxValuesPerFacetInputs == {Undefined} \cup (0..MaxMaxValuesPerFacet)

\* One channel of the query state for `attribute`: not registered, or
\* registered with no key, or registered with a list of distinct values.
ChannelInputs ==
    {[registered |-> FALSE, hasKey |-> FALSE, values |-> <<>>],
     [registered |-> TRUE, hasKey |-> FALSE, values |-> <<>>]}
    \cup {[registered |-> TRUE, hasKey |-> TRUE, values |-> s] :
             s \in RefinementLists}

ChannelFacets(c, withOther) ==
    (IF withOther THEN <<otherAttribute>> ELSE <<>>)
    \o (IF c.registered THEN <<attribute>> ELSE <<>>)

ChannelRefinements(c, withOther) ==
    [a \in (IF withOther THEN {otherAttribute} ELSE {})
           \cup (IF c.hasKey THEN {attribute} ELSE {}) |->
        IF a = attribute THEN c.values ELSE <<"Sony">>]

\* Query states the client API can build: refinements only on registered
\* facets, excludes only on conjunctive facets.
SearchParametersInputs ==
    {sp \in {[facets |-> ChannelFacets(conj, withOther),
      disjunctiveFacets |-> ChannelFacets(disj, FALSE),
      facetsRefinements |-> ChannelRefinements(conj, withOther),
      facetsExcludes |-> IF excluded THEN [a \in {attribute} |-> <<"Apple">>]
                         ELSE <<>>,
      disjunctiveFacetsRefinements |-> ChannelRefinements(disj, FALSE),
      maxValuesPerFacet |-> m] :
        conj \in ChannelInputs, disj \in ChannelInputs,
        withOther \in BOOLEAN,
        excluded \in BOOLEAN,
        m \in MaxValuesPerFacetInputs} :
      attribute \in DOMAIN sp.facetsExcludes => isConjunctiveFacet(sp, attribute)}

UiValueLists == UNION {[1..n -> Values] : n \in 0..MaxUiValues}

UiStateInputs ==
    {[refinementList |-> rl, configure |-> "hitsPerPage"] :
        rl \in {<<>>} \cup {[a \in {attribute} |-> s] : s \in UiValueLists}
               \cup {[a \in Attrs |-> IF a = attribute THEN s ELSE <<"Sony">>] :
                        s \in UiValueLists}}

\* Connectors the projector operations are called on: transformItems plays
\* no part in them.
ProjectorParams == {p \in WidgetParamsInputs : p.transformItems = "identity"}

NoRequest == [attribute |-> attribute, query |-> "", maxFacetHits |-> 0]

\* What the last handler was and did: the external calls it made, in order
\* (trace), the sub-search it issued or that resolved (request), the options
\* of a primary render (options), and whether a getWidgetSearchParameters
\* directly followed the same connector's getWidgetState (roundTrip).  Of a
\* resolution it also tells whether an older sub-search was still in flight
\* (overtook), and whether the sub-search that resolved just before it had
\* been issued after it (overtaken).  Of a getWidgetSearchParameters it tells
\* whether it directly followed one of the same connector (repeated).
Call(name, p, trace, request, options, roundTrip) ==
    [name |-> name, params |-> p, trace |-> trace, request |-> request,
     options |-> options, roundTrip |-> roundTrip,
     overtook |-> FALSE, overtaken |-> FALSE, repeated |-> FALSE]

\* The resolution of the i-th sub-search in flight comes after that of a
\* sub-search issued later.
Overtaken(i) == lastCall.name = "resolve" /\ lastCall.overtook /\ i = 1

ResolveCall(i) ==
    [Call("resolve", widgetParams, <<"renderFn">>, pending[i], <<>>, FALSE)
        EXCEPT !.overtook = i > 1, !.overtaken = Overtaken(i)]

\* ------------------------------------------------- results of the engine
FacetNames == <<"Apple", "Samsung", "Sony", "Bose", "Asus", "Acer">>

FacetValues(n) == [i \in 1..n |-> [name |-> FacetNames[i], count |-> 12 - 2 * i]]

\* results.getFacetValues(attribute, {sortBy}): undefined, or a sorted list.
ResultsInputs ==
    {[defined |-> FALSE, values |-> <<>>]}
    \cup {[defined |-> TRUE, values |-> FacetValues(n)] : n \in 0..MaxFacetValues}

\* state.maxValuesPerFacet at a render: unset, above limit only, above both
\* limits.
RenderOptionsInputs ==
    [results : ResultsInputs,
     maxValuesPerFacet : {Undefined, MaxLimit + 1, MaxLimit + 2}]

Queries == {"", "a", "s"}

\* helper.searchForFacetValues(attribute, query, maxFacetHits, tags): the hits
\* the engine answers with, at most maxFacetHits of them.
facetHits(attr, query, maxFacetHits) ==
    LET all == IF query = "a"
               THEN <<[value |-> "Apple", count |-> 10],
                      [value |-> "Samsung", count |-> 8],
                      [value |-> "Asus", count |-> 2]>>
               ELSE <<[value |-> "Sony", count |-> 6],
                      [value |-> "Samsung", count |-> 8]>>
    IN  SubSeq(all, 1, Min(maxFacetHits, Len(all)))

\* ------------------------------------------------------------ connector
formatItems(facetValue) ==
    [value |-> facetValue.name, label |-> facetValue.name,
     count |-> facetValue.count]

normalizeFacetHit(hit) ==
    [value |-> hit.value, label |-> hit.value, count |-> hit.count]

MapSeq(s, Op(_)) == [i \in DOMAIN s |-> Op(s[i])]

Slice(s, n) == SubSeq(s, 1, Min(n, Len(s)))

\* The transformItems option: the default, one that filters and one that adds.
transformItems(p, items) ==
    CASE p.transformItems = "identity" -> items
      [] p.transformItems = "dropLast" -> Slice(items, Len(items) - 1)
      [] OTHER -> Append(items, [value |-> "Other", label |-> "Other", count |-> 0])

getCurrentLimit(p, showingMore) ==
    IF showingMore THEN p.showMoreLimit ELSE p.limit

renderPayload_noShowLess(p, items, isFromSearch, isFirstSearch, showingMore, cached, exhaustive) ==
    [items |-> items,
     isFromSearch |-> isFromSearch,
     canRefine |-> isFromSearch \/ Len(items) > 0,
     isShowingMore |-> showingMore,
     canToggleShowMore |-> p.showMore /\ ~isFromSearch /\ ~exhaustive,
     hasExhaustiveItems |-> exhaustive,
     isFirstRender |-> isFirstSearch]

renderPayload_alwaysShowMore(p, items, isFromSearch, isFirstSearch, showingMore, cached, exhaustive) ==
    [items |-> items,
     isFromSearch |-> isFromSearch,
     canRefine |-> isFromSearch \/ Len(items) > 0,
     isShowingMore |-> showingMore,
     canToggleShowMore |-> (showingMore /\ Len(cached) > p.limit)
                               \/ (~isFromSearch /\ ~exhaustive),
     hasExhaustiveItems |-> exhaustive,
     isFirstRender |-> isFirstSearch]

\* The payload that render({...}) hands to renderFn.
renderPayload(p, items, isFromSearch, isFirstSearch, showingMore, cached, exhaustive) ==
    LET canShowLess == showingMore /\ Len(cached) > p.limit
        canShowMore == p.showMore /\ ~isFromSearch /\ ~exhaustive
    IN  [items |-> items,
         isFromSearch |-> isFromSearch,
         canRefine |-> isFromSearch \/ Len(items) > 0,
         isShowingMore |-> showingMore,
         canToggleShowMore |-> canShowLess \/ canShowMore,
         hasExhaustiveItems |-> exhaustive,
         isFirstRender |-> isFirstSearch]

getFacetValues(results) == IF results.defined THEN results.values ELSE <<>>

mainSearchItems_noSlice(p, renderOptions, showingMore) ==
    transformItems(p, MapSeq(getFacetValues(renderOptions.results), formatItems))

mainSearchItems_baseLimit(p, renderOptions, showingMore) ==
    transformItems(p,
        MapSeq(Slice(getFacetValues(renderOptions.results), p.limit), formatItems))

mainSearchItems(p, renderOptions, showingMore) ==
    transformItems(p,
        MapSeq(Slice(getFacetValues(renderOptions.results),
                     getCurrentLimit(p, showingMore)), formatItems))

exhaustiveItems_strict(p, renderOptions, showingMore) ==
    Len(getFacetValues(renderOptions.results)) < getCurrentLimit(p, showingMore)

exhaustiveItems(p, renderOptions, showingMore) ==
    LET currentLimit == getCurrentLimit(p, showingMore)
        n == Len(getFacetValues(renderOptions.results))
        maxValuesPerFacetConfig == renderOptions.maxValuesPerFacet
    IN  IF maxValuesPerFacetConfig # Undefined /\ maxValuesPerFacetConfig > currentLimit
        THEN n <= currentLimit
        ELSE n < currentLimit

searchItems(p, request) ==
    transformItems(p,
        MapSeq(facetHits(request.attribute, request.query, request.maxFacetHits),
               normalizeFacetHit))

WidgetRender_firstSearch(renderOptions, showingMore, name) ==
    LET items == mainSearchItems(widgetParams, renderOptions, showingMore)
        exhaustive == exhaustiveItems(widgetParams, renderOptions, showingMore)
    IN  /\ lastRenderOptions' = <<renderOptions>>
        /\ hasExhaustiveItems' = exhaustive
        /\ lastResultsFromMainSearch' = items
        /\ rendered' = <<renderPayload(widgetParams, items, FALSE,
                                       lastRenderOptions = <<>>,
                                       showingMore, items, exhaustive)>>
        /\ lastCall' = Call(name, widgetParams, <<"renderFn">>, NoRequest,
                            IF name = "render" THEN <<renderOptions>> ELSE <<>>,
                            FALSE)

\* The widget's render(renderOptions), run with the paginator in mode showingMore.
WidgetRender(renderOptions, showingMore, name) ==
    LET items == mainSearchItems(widgetParams, renderOptions, showingMore)
        exhaustive == exhaustiveItems(widgetParams, renderOptions, showingMore)
    IN  /\ lastRenderOptions' = <<renderOptions>>
        /\ hasExhaustiveItems' = exhaustive
        /\ lastResultsFromMainSearch' = items
        /\ rendered' = <<renderPayload(widgetParams, items, FALSE, FALSE,
                                       showingMore, items, exhaustive)>>
        /\ lastCall' = Call(name, widgetParams, <<"renderFn">>, NoRequest,
                            IF name = "render" THEN <<renderOptions>> ELSE <<>>,
                            FALSE)

InitWidget ==
    /\ phase = "UNINIT"
    /\ phase' = "READY"
    /\ rendered' = <<renderPayload(widgetParams, <<>>, FALSE, TRUE, isShowingMore,
                                   lastResultsFromMainSearch, hasExhaustiveItems)>>
    /\ lastCall' = Call("init", widgetParams, <<"renderFn">>, NoRequest, <<>>, FALSE)
    /\ UNCHANGED <<searchParameters, uiState, widgetParams,
                   lastResultsFromMainSearch, hasExhaustiveItems, isShowingMore,
                   lastRenderOptions, pending>>

Render(renderOptions) ==
    /\ phase = "READY"
    /\ WidgetRender(renderOptions, isShowingMore, "render")
    /\ UNCHANGED <<searchParameters, uiState, widgetParams, phase, isShowingMore,
                   pending>>

ToggleShowMore ==
    /\ lastRenderOptions # <<>>
    /\ isShowingMore' = ~isShowingMore
    /\ WidgetRender(lastRenderOptions[1], ~isShowingMore, "toggleShowMore")
    /\ UNCHANGED <<searchParameters, uiState, widgetParams, phase, pending>>

SearchForItems_alwaysSearch(query) ==
    LET request == [attribute |-> attribute,
                    query |-> query,
                    maxFacetHits |-> getCurrentLimit(widgetParams, isShowingMore)]
    IN  /\ phase # "UNINIT"
        /\ Len(pending) < MaxInFlight
        /\ pending' = Append(pending, request)
        /\ lastCall' = Call("searchForItems", widgetParams,
                            <<"searchForFacetValues">>, request, <<>>, FALSE)
        /\ UNCHANGED <<searchParameters, uiState, widgetParams, phase,
                       lastResultsFromMainSearch, hasExhaustiveItems,
                       isShowingMore, lastRenderOptions, rendered>>

SearchForItems_baseLimit(query) ==
    /\ phase # "UNINIT"
    /\ IF query = ""
       THEN /\ rendered' = <<renderPayload(widgetParams, lastResultsFromMainSearch,
                                 FALSE, FALSE, isShowingMore,
                                 lastResultsFromMainSearch, hasExhaustiveItems)>>
            /\ lastCall' = Call("searchForItems", widgetParams, <<"renderFn">>,
                                NoRequest, <<>>, FALSE)
            /\ UNCHANGED pending
       ELSE LET request == [attribute |-> attribute,
                            query |-> query,
                            maxFacetHits |-> widgetParams.limit]
            IN  /\ Len(pending) < MaxInFlight
                /\ pending' = Append(pending, request)
                /\ lastCall' = Call("searchForItems", widgetParams,
                                    <<"searchForFacetValues">>, request, <<>>, FALSE)
                /\ UNCHANGED rendered
    /\ UNCHANGED <<searchParameters, uiState, widgetParams, phase,
                   lastResultsFromMainSearch, hasExhaustiveItems, isShowingMore,
                   lastRenderOptions>>

SearchForItems(query) ==
    /\ phase # "UNINIT"
    /\ IF query = ""
       THEN /\ rendered' = <<renderPayload(widgetParams, lastResultsFromMainSearch,
                                 FALSE, FALSE, isShowingMore,
                                 lastResultsFromMainSearch, hasExhaustiveItems)>>
            /\ lastCall' = Call("searchForItems", widgetParams, <<"renderFn">>,
                                NoRequest, <<>>, FALSE)
            /\ UNCHANGED pending
       ELSE LET request == [attribute |-> attribute,
                            query |-> query,
                            maxFacetHits |-> getCurrentLimit(widgetParams, isShowingMore)]
            IN  /\ Len(pending) < MaxInFlight
                /\ pending' = Append(pending, request)
                /\ lastCall' = Call("searchForItems", widgetParams,
                                    <<"searchForFacetValues">>, request, <<>>, FALSE)
                /\ UNCHANGED rendered
    /\ UNCHANGED <<searchParameters, uiState, widgetParams, phase,
                   lastResultsFromMainSearch, hasExhaustiveItems, isShowingMore,
                   lastRenderOptions>>

Resolve_dropStale(i) ==
    /\ i \in DOMAIN pending
    /\ rendered' = IF Overtaken(i) THEN rendered
                   ELSE <<renderPayload(widgetParams,
                                        searchItems(widgetParams, pending[i]),
                                        TRUE, FALSE, isShowingMore,
                                        lastResultsFromMainSearch,
                                        hasExhaustiveItems)>>
    /\ pending' = [j \in 1..(Len(pending) - 1) |->
                      IF j < i THEN pending[j] ELSE pending[j + 1]]
    /\ lastCall' = ResolveCall(i)
    /\ UNCHANGED <<searchParameters, uiState, widgetParams, phase,
                   lastResultsFromMainSearch, hasExhaustiveItems, isShowingMore,
                   lastRenderOptions>>

Resolve_cacheItems(i) ==
    /\ i \in DOMAIN pending
    /\ rendered' = <<renderPayload(widgetParams, searchItems(widgetParams, pending[i]),
                                   TRUE, FALSE, isShowingMore,
                                   lastResultsFromMainSearch, hasExhaustiveItems)>>
    /\ lastResultsFromMainSearch' = searchItems(widgetParams, pending[i])
    /\ pending' = [j \in 1..(Len(pending) - 1) |->
                      IF j < i THEN pending[j] ELSE pending[j + 1]]
    /\ lastCall' = ResolveCall(i)
    /\ UNCHANGED <<searchParameters, uiState, widgetParams, phase,
                   hasExhaustiveItems, isShowingMore, lastRenderOptions>>

\* The promise of the i-th sub-search in flight resolves.
Resolve(i) ==
    /\ i \in DOMAIN pending
    /\ rendered' = <<renderPayload(widgetParams, searchItems(widgetParams, pending[i]),
                                   TRUE, FALSE, isShowingMore,
                                   lastResultsFromMainSearch, hasExhaustiveItems)>>
    /\ pending' = [j \in 1..(Len(pending) - 1) |->
                      IF j < i THEN pending[j] ELSE pending[j + 1]]
    /\ lastCall' = ResolveCall(i)
    /\ UNCHANGED <<searchParameters, uiState, widgetParams, phase,
                   lastResultsFromMainSearch, hasExhaustiveItems, isShowingMore,
                   lastRenderOptions>>

Dispose_cancelPending(p, nextPhase) ==
    /\ searchParameters' = dispose(p, searchParameters)
    /\ phase' = nextPhase
    /\ pending' = <<>>
    /\ lastRenderOptions' = <<>>
    /\ lastCall' = Call("dispose", p,
                        <<"unmountFn", "setQueryParameter",
                          IF p.operator = "and" THEN "removeFacet"
                          ELSE "removeDisjunctiveFacet">>, NoRequest, <<>>, FALSE)
    /\ UNCHANGED <<uiState, widgetParams, lastResultsFromMainSearch,
                   hasExhaustiveItems, isShowingMore, rendered>>

\* dispose({state}) of a connector with parameters p on the shared query state.
Dispose(p, nextPhase) ==
    /\ searchParameters' = dispose(p, searchParameters)
    /\ phase' = nextPhase
    /\ lastCall' = Call("dispose", p,
                        <<"unmountFn", "setQueryParameter",
                          IF p.operator = "and" THEN "removeFacet"
                          ELSE "removeDisjunctiveFacet">>, NoRequest, <<>>, FALSE)
    /\ UNCHANGED <<uiState, widgetParams, lastResultsFromMainSearch,
                   hasExhaustiveItems, isShowingMore, lastRenderOptions, pending,
                   rendered>>

\* ------------------------------------------------- state-sync driver calls
GetWidgetState(p) ==
    /\ uiState' = getWidgetState(p, uiState, searchParameters)
    /\ lastCall' = Call("getWidgetState", p, <<>>, NoRequest, <<>>, FALSE)
    /\ UNCHANGED <<searchParameters, connectorVars>>

GetWidgetSearchParameters(p) ==
    /\ searchParameters' = getWidgetSearchParameters(p, searchParameters, uiState)
    /\ lastCall' = [Call("getWidgetSearchParameters", p, <<>>, NoRequest, <<>>,
                         lastCall.name = "getWidgetState" /\ lastCall.params = p)
                       EXCEPT !.repeated =
                           /\ lastCall.name = "getWidgetSearchParameters"
                           /\ lastCall.params = p]
    /\ UNCHANGED <<uiState, connectorVars>>

\* -------------------------------------------------------- specifications
EmptySearchParameters ==
    [facets |-> <<>>, disjunctiveFacets |-> <<>>, facetsRefinements |-> <<>>,
     facetsExcludes |-> <<>>, disjunctiveFacetsRefinements |-> <<>>,
     maxValuesPerFacet |-> Undefined]

EmptyUiState == [refinementList |-> <<>>, configure |-> "hitsPerPage"]

ConnectorInit(p) ==
    /\ widgetParams = p
    /\ phase = "UNINIT"
    /\ lastResultsFromMainSearch = <<>>
    /\ hasExhaustiveItems = TRUE
    /\ isShowingMore = FALSE
    /\ lastRenderOptions = <<>>
    /\ pending = <<>>
    /\ rendered = <<>>
    /\ lastCall = Call("construct", p, <<>>, NoRequest, <<>>, FALSE)

\* One connector instance through its lifecycle.
Init ==
    /\ \E p \in {q \in WidgetParamsInputs : q.operator = "or"} :
          /\ ConnectorInit(p)
          /\ searchParameters =
                 getWidgetSearchParameters(p, EmptySearchParameters, EmptyUiState)
    /\ uiState = EmptyUiState

Next ==
    \/ InitWidget
    \/ \E renderOptions \in RenderOptionsInputs : Render(renderOptions)
    \/ ToggleShowMore
    \/ \E query \in Queries : SearchForItems(query)
    \/ \E i \in 1..MaxInFlight : Resolve(i)
    \/ (phase = "READY" /\ Dispose(widgetParams, "DISPOSED"))

Spec == Init /\ [][Next]_vars

\* The projector of any connector on a shared query state.
DefaultWidgetParams ==
    [operator |-> "or", limit |-> MaxLimit, showMore |-> FALSE,
     showMoreLimit |-> MaxLimit + 1, transformItems |-> "identity"]

InitProjector ==
    /\ ConnectorInit(DefaultWidgetParams)
    /\ searchParameters \in SearchParametersInputs
    /\ uiState \in UiStateInputs

NextProjector ==
    \/ \E p \in ProjectorParams : GetWidgetState(p)
    \/ \E p \in ProjectorParams : GetWidgetSearchParameters(p)
    \/ \E p \in ProjectorParams : Dispose(p, phase)

SpecProjector == InitProjector /\ [][NextProjector]_vars

\* ----------------------------------------------------------- construction
\* The options object given to the widget factory: an option is <<>> when the
\* caller leaves it out, <<v>> when the caller gives v.
DefaultLimit == 10

DefaultShowMoreLimit == 20

LimitInputs ==
    {<<>>} \cup {<<n>> : n \in (1..(MaxLimit + 1))
                              \cup {DefaultLimit, DefaultShowMoreLimit}}

OptionsInputs ==
    [attribute : {<<>>, <<"">>, <<attribute>>},
     operator : {<<>>, <<"and">>, <<"or">>, <<"xor">>},
     limit : LimitInputs,
     showMore : {<<>>, <<FALSE>>, <<TRUE>>},
     showMoreLimit : LimitInputs]

OptionOr(option, default) == IF option = <<>> THEN default ELSE option[1]

\* The factory: the widget parameters it keeps, or the error it throws.
connectRefinementList(options) ==
    LET p == [operator |-> OptionOr(options.operator, "or"),
              limit |-> OptionOr(options.limit, DefaultLimit),
              showMore |-> OptionOr(options.showMore, FALSE),
              showMoreLimit |-> OptionOr(options.showMoreLimit, DefaultShowMoreLimit),
              transformItems |-> "identity"]
    IN  IF OptionOr(options.attribute, "") = "" THEN Thrown
        ELSE IF p.operator \notin Operators THEN Thrown
        ELSE IF ~ParamsAccepted(p) THEN Thrown
        ELSE p

Construct(options) ==
    LET widget == connectRefinementList(options)
    IN  /\ phase = "UNCONSTRUCTED"
        /\ IF widget = Thrown
           THEN /\ lastCall' = Call("construct", widgetParams, <<"throw">>,
                                    NoRequest, <<options>>, FALSE)
                /\ UNCHANGED <<widgetParams, phase>>
           ELSE /\ widgetParams' = widget
                /\ phase' = "UNINIT"
                /\ lastCall' = Call("construct", widget, <<>>, NoRequest,
                                    <<options>>, FALSE)
        /\ UNCHANGED <<searchParameters, uiState, lastResultsFromMainSearch,
                       hasExhaustiveItems, isShowingMore, lastRenderOptions,
                       pending, rendered>>

\* The factory called on any options, and the widget it returns initialised.
InitConstruct ==
    /\ widgetParams = <<>>
    /\ phase = "UNCONSTRUCTED"
    /\ lastResultsFromMainSearch = <<>>
    /\ hasExhaustiveItems = TRUE
    /\ isShowingMore = FALSE
    /\ lastRenderOptions = <<>>
    /\ pending = <<>>
    /\ rendered = <<>>
    /\ lastCall = Call("none", <<>>, <<>>, NoRequest, <<>>, FALSE)
    /\ searchParameters = EmptySearchParameters
    /\ uiState = EmptyUiState

NextConstruct ==
    \/ \E options \in OptionsInputs : Construct(options)
    \/ InitWidget

SpecConstruct == InitConstruct /\ [][NextConstruct]_vars

\* ------------------------------------------- parameter-merge connector
\* The connector of connectConfigure.  Its widgetParams is the record
\* [searchParameters |-> params], where params maps the keys the caller wrote
\* to their values (Undefined for a key written with the value undefined).
\* The query state of the client carries a plain parameter as one more field;
\* a parameter that is not set has no field.
MaxParamValue == 2

ConfigureKeys == {"hitsPerPage", "distinct"}

ParamValues == {Undefined} \cup (1..MaxParamValue)

PlainSearchParameters ==
    UNION {[keys -> ParamValues] : keys \in SUBSET ConfigureKeys}

IsSet(state, key) == key \in DOMAIN state /\ state[key] # Undefined

\* state.setQueryParameters(params): a key given as undefined is left out of
\* the next state, a key given a value takes it.
setQueryParameters(state, params) ==
    LET given == {k \in DOMAIN params : params[k] # Undefined}
        omitted == {k \in DOMAIN params : params[k] = Undefined}
    IN  [k \in ((DOMAIN state) \ omitted) \cup given |->
            IF k \in given THEN params[k] ELSE state[k]]

\* new SearchParameters(params): the keys whose value is defined.
newSearchParameters(params) ==
    [k \in {j \in DOMAIN params : params[j] # Undefined} |-> params[k]]

\* mergeSearchParameters(left, right), on plain parameters: right over left.
mergeSearchParameters(left, right) == setQueryParameters(left, right)

\* {...a, ...b}
Spread(a, b) ==
    [k \in (DOMAIN a) \cup (DOMAIN b) |-> IF k \in DOMAIN b THEN b[k] ELSE a[k]]

getInitialSearchParameters_keepStale(state, wp) == state

getInitialSearchParameters_resetAll(state, wp) ==
    [k \in (DOMAIN state) \ ConfigureKeys |-> state[k]]

getInitialSearchParameters(state, wp) ==
    setQueryParameters(state, [k \in DOMAIN wp.searchParameters |-> Undefined])

configureGetWidgetSearchParameters(wp, state, ui) ==
    mergeSearchParameters(state,
        newSearchParameters(Spread(ui.configure, wp.searchParameters)))

configureGetWidgetState(wp, ui) ==
    [ui EXCEPT !.configure = Spread(@, wp.searchParameters)]

ConfigureUnchanged ==
    UNCHANGED <<lastResultsFromMainSearch, hasExhaustiveItems, isShowingMore,
                lastRenderOptions, pending>>

ConfigureInitWidget ==
    /\ phase = "UNINIT"
    /\ phase' = "READY"
    /\ rendered' = <<[refine |-> "refine", isFirstRender |-> TRUE]>>
    /\ lastCall' = Call("init", widgetParams, <<"renderFn">>, NoRequest, <<>>, FALSE)
    /\ UNCHANGED <<searchParameters, uiState, widgetParams>>
    /\ ConfigureUnchanged

ConfigureRender ==
    /\ phase = "READY"
    /\ rendered' = <<[refine |-> "refine", isFirstRender |-> FALSE]>>
    /\ lastCall' = Call("render", widgetParams, <<"renderFn">>, NoRequest, <<>>, FALSE)
    /\ UNCHANGED <<searchParameters, uiState, widgetParams, phase>>
    /\ ConfigureUnchanged

\* refine(searchParameters), the function init hands to the rendering callback.
Refine(params) ==
    LET actualState == getInitialSearchParameters(searchParameters, widgetParams)
        nextSearchParameters ==
            mergeSearchParameters(actualState, newSearchParameters(params))
    IN  /\ phase # "UNINIT"
        /\ searchParameters' = nextSearchParameters
        /\ widgetParams' = [widgetParams EXCEPT !.searchParameters = params]
        /\ lastCall' = Call("refine", widgetParams, <<"setState", "search">>,
                            NoRequest, <<params>>, FALSE)
        /\ UNCHANGED <<uiState, phase, rendered>>
        /\ ConfigureUnchanged

ConfigureDispose ==
    /\ phase = "READY"
    /\ phase' = "DISPOSED"
    /\ searchParameters' = getInitialSearchParameters(searchParameters, widgetParams)
    /\ lastCall' = Call("dispose", widgetParams, <<"unmountFn">>, NoRequest,
                        <<>>, FALSE)
    /\ UNCHANGED <<uiState, widgetParams, rendered>>
    /\ ConfigureUnchanged

ConfigureGetWidgetSearchParameters ==
    /\ searchParameters' =
           configureGetWidgetSearchParameters(widgetParams, searchParameters, uiState)
    /\ lastCall' = Call("getWidgetSearchParameters", widgetParams, <<>>,
                        NoRequest, <<>>, FALSE)
    /\ UNCHANGED <<uiState, widgetParams, phase, rendered>>
    /\ ConfigureUnchanged

ConfigureGetWidgetState ==
    /\ uiState' = configureGetWidgetState(widgetParams, uiState)
    /\ lastCall' = Call("getWidgetState", widgetParams, <<>>, NoRequest, <<>>, FALSE)
    /\ UNCHANGED <<searchParameters, widgetParams, phase, rendered>>
    /\ ConfigureUnchanged

\* Query states another widget may have left its own parameters in.
ConfigureStateInputs ==
    {Spread(EmptySearchParameters, params) :
        params \in {p \in PlainSearchParameters :
                        \A k \in DOMAIN p : p[k] # Undefined}}

ConfigureUiStateInputs ==
    {[refinementList |-> <<>>, configure |-> params] :
        params \in {p \in PlainSearchParameters :
                        \A k \in DOMAIN p : p[k] = MaxParamValue}}

InitConfigure ==
    /\ widgetParams \in [searchParameters : PlainSearchParameters]
    /\ phase = "UNINIT"
    /\ searchParameters \in ConfigureStateInputs
    /\ uiState \in ConfigureUiStateInputs
    /\ lastResultsFromMainSearch = <<>>
    /\ hasExhaustiveItems = TRUE
    /\ isShowingMore = FALSE
    /\ lastRenderOptions = <<>>
    /\ pending = <<>>
    /\ rendered = <<>>
    /\ lastCall = Call("construct", widgetParams, <<>>, NoRequest, <<>>, FALSE)

NextConfigure ==
    \/ ConfigureInitWidget
    \/ ConfigureRender
    \/ \E params \in PlainSearchParameters : Refine(params)
    \/ ConfigureDispose
    \/ ConfigureGetWidgetSearchParameters
    \/ ConfigureGetWidgetState

SpecConfigure == InitConfigure /\ [][NextConfigure]_vars

\* ------------------------------------------------------------ properties
\* The refinements of `attribute` on the channel the operator of p selects.
OwnRefinements(p, sp) ==
    IF p.operator = "or" THEN getDisjunctiveRefinements(sp, attribute)
    ELSE getConjunctiveRefinements(sp, attribute)

OwnRegistered(p, sp) ==
    IF p.operator = "or" THEN isDisjunctiveFacet(sp, attribute)
    ELSE isConjunctiveFacet(sp, attribute)

OtherRegistered(p, sp) ==
    IF p.operator = "or" THEN isConjunctiveFacet(sp, attribute)
    ELSE isDisjunctiveFacet(sp, attribute)

OwnKey(p, sp) ==
    IF p.operator = "or" THEN sp.disjunctiveFacetsRefinements
    ELSE sp.facetsRefinements

OtherKey(p, sp) ==
    IF p.operator = "or" THEN sp.facetsRefinements
    ELSE sp.disjunctiveFacetsRefinements

EffectiveLimit(p) == IF p.showMore THEN p.showMoreLimit ELSE p.limit

RECURSIVE Distinct(_)
Distinct(s) ==
    IF s = <<>> THEN <<>>
    ELSE LET front == Distinct(SubSeq(s, 1, Len(s) - 1))
         IN  IF Contains(front, s[Len(s)]) THEN front
             ELSE Append(front, s[Len(s)])

IsRoundTripStep ==
    /\ lastCall.name = "getWidgetState"
    /\ lastCall'.name = "getWidgetSearchParameters"
    /\ lastCall'.params = lastCall.params

\* C1 (as stated): getWidgetState then getWidgetSearchParameters of the same
\* connector rebuilds, as a set, the refinement set the query state had for
\* `attribute` on the operator's channel, whatever the input UI state held.
C1_RoundTripAnyUiState ==
    [][IsRoundTripStep =>
          Range(OwnRefinements(lastCall'.params, searchParameters'))
              = Range(OwnRefinements(lastCall'.params, searchParameters))]_vars

\* C1 (amended): the round trip rebuilds the refinement set when the query
\* state has a refinement for `attribute` on the operator's channel, or the
\* input UI state carries no value for `attribute`; getWidgetState leaves a UI
\* state untouched when the query state has no refinement, so values already
\* in it come back as refinements.
C1_RoundTrip ==
    [][(/\ IsRoundTripStep
        /\ \/ OwnRefinements(lastCall'.params, searchParameters) # <<>>
           \/ attribute \notin DOMAIN uiState.refinementList
           \/ uiState.refinementList[attribute] = <<>>)
       => Range(OwnRefinements(lastCall'.params, searchParameters'))
              = Range(OwnRefinements(lastCall'.params, searchParameters))]_vars

C1_Witness ==
    /\ lastCall.name = "getWidgetSearchParameters"
    /\ lastCall.roundTrip
    /\ Len(OwnRefinements(lastCall.params, searchParameters)) = 2
    /\ uiState.refinementList[attribute]
           = OwnRefinements(lastCall.params, searchParameters)

\* C2: getWidgetSearchParameters sets maxValuesPerFacet to the maximum of the
\* input value (0 when unset) and showMore ? showMoreLimit : limit, so no call
\* of any connector on the shared query state decreases it.
C2_MaxValuesPerFacetMonotonic ==
    [][lastCall'.name = "getWidgetSearchParameters" =>
          LET before == IF searchParameters.maxValuesPerFacet = Undefined THEN 0
                        ELSE searchParameters.maxValuesPerFacet
              after == searchParameters'.maxValuesPerFacet
          IN  /\ after = Max(before, EffectiveLimit(lastCall'.params))
              /\ after >= before
              /\ after >= EffectiveLimit(lastCall'.params)]_vars

C2_Witness ==
    /\ lastCall.name = "getWidgetSearchParameters"
    /\ ~lastCall.params.showMore
    /\ searchParameters.maxValuesPerFacet > lastCall.params.limit

\* C3 (as stated): after getWidgetSearchParameters `attribute` is registered
\* on exactly one facet channel, the one the operator selects.
C3_ExactlyOneChannel ==
    lastCall.name = "getWidgetSearchParameters" =>
        /\ OwnRegistered(lastCall.params, searchParameters)
        /\ ~OtherRegistered(lastCall.params, searchParameters)

\* C3 (amended): after getWidgetSearchParameters `attribute` is registered on
\* the channel the operator selects, and its registration on the other
\* channel is what it was in the input state: the two facet lists change by
\* at most the one appended name.
C3_OwnChannelRegistered ==
    [][lastCall'.name = "getWidgetSearchParameters" =>
          LET p == lastCall'.params
              s == searchParameters
              t == searchParameters'
          IN  /\ OwnRegistered(p, t)
              /\ OtherRegistered(p, t) = OtherRegistered(p, s)
              /\ IF p.operator = "or"
                 THEN /\ t.facets = s.facets
                      /\ t.disjunctiveFacets
                             = IF isDisjunctiveFacet(s, attribute)
                               THEN s.disjunctiveFacets
                               ELSE Append(s.disjunctiveFacets, attribute)
                 ELSE /\ t.disjunctiveFacets = s.disjunctiveFacets
                      /\ t.facets = IF isConjunctiveFacet(s, attribute)
                                    THEN s.facets
                                    ELSE Append(s.facets, attribute)]_vars

C3_Witness ==
    /\ lastCall.name = "getWidgetSearchParameters"
    /\ lastCall.params.operator = "or"
    /\ isDisjunctiveFacet(searchParameters, attribute)
    /\ isConjunctiveFacet(searchParameters, attribute)

\* C4: after getWidgetSearchParameters the refinements of `attribute` are what
\* the UI state says: nothing is left on the other channel or among the
\* excludes; without a UI-state entry the operator's channel holds the key
\* with an empty list; otherwise it holds the UI-state values, in UI-state
\* order, each once.
C4_RefinementsFromUiState ==
    lastCall.name = "getWidgetSearchParameters" =>
        LET p == lastCall.params
            own == OwnKey(p, searchParameters)
            other == OtherKey(p, searchParameters)
            excludes == searchParameters.facetsExcludes
        IN  /\ attribute \in DOMAIN other => other[attribute] = <<>>
            /\ attribute \in DOMAIN excludes => excludes[attribute] = <<>>
            /\ IF attribute \notin DOMAIN uiState.refinementList
               THEN attribute \in DOMAIN own /\ own[attribute] = <<>>
               ELSE /\ OwnRefinements(p, searchParameters)
                           = Distinct(uiState.refinementList[attribute])
                    /\ uiState.refinementList[attribute] # <<>>
                           => attribute \in DOMAIN own

C4_Witness ==
    /\ lastCall.name = "getWidgetSearchParameters"
    /\ lastCall.params.operator = "and"
    /\ uiState.refinementList = [a \in {attribute} |-> <<"Sony", "Apple">>]
    /\ searchParameters.facetsRefinements[attribute] = <<"Sony", "Apple">>

\* C5: dispose calls the unmount hook first and returns the query state with
\* maxValuesPerFacet unset and `attribute` off the operator's channel; the
\* other channel's facet list is unchanged; when `attribute` was not
\* registered on the operator's channel nothing else changes; disposing the
\* result again returns it unchanged.
C5_Dispose ==
    [][lastCall'.name = "dispose" =>
          LET p == lastCall'.params
              s == searchParameters
              t == searchParameters'
          IN  /\ Head(lastCall'.trace) = "unmountFn"
              /\ DOMAIN t = DOMAIN s
              /\ t.maxValuesPerFacet = Undefined
              /\ ~OwnRegistered(p, t)
              /\ IF p.operator = "and"
                 THEN /\ t.disjunctiveFacets = s.disjunctiveFacets
                      /\ t.facets = Filter(s.facets, attribute)
                 ELSE /\ t.facets = s.facets
                      /\ t.disjunctiveFacets = Filter(s.disjunctiveFacets, attribute)
              /\ ~OwnRegistered(p, s)
                     => t = [s EXCEPT !.maxValuesPerFacet = Undefined]
              /\ dispose(p, t) = t]_vars

C5_Witness ==
    /\ lastCall.name = "dispose"
    /\ lastCall.params.operator = "and"
    /\ searchParameters.maxValuesPerFacet = Undefined
    /\ searchParameters.facets = <<otherAttribute>>
    /\ searchParameters.disjunctiveFacets = <<attribute>>

\* The first n facet values of a primary render's results, as items.
FirstFacetItems(renderOptions, n) ==
    LET values == IF renderOptions.results.defined
                  THEN renderOptions.results.values ELSE <<>>
    IN  [i \in 1..Min(n, Len(values)) |->
            [value |-> values[i].name, label |-> values[i].name,
             count |-> values[i].count]]

\* One item per facet hit the engine returns for a sub-search.
FacetHitItems(request) ==
    LET hits == facetHits(request.attribute, request.query, request.maxFacetHits)
    IN  [i \in DOMAIN hits |->
            [value |-> hits[i].value, label |-> hits[i].value,
             count |-> hits[i].count]]

LimitOf(p, showingMore) == IF showingMore THEN p.showMoreLimit ELSE p.limit

\* The paginator records the options of each primary render and only a
\* primary render replaces them; a toggle flips the mode and renders once,
\* not from a search, without any search or sub-search call.
ToggleReplays ==
    /\ lastCall'.name = "render" => lastRenderOptions' = lastCall'.options
    /\ lastCall'.name # "render" => lastRenderOptions' = lastRenderOptions
    /\ lastCall'.name = "toggleShowMore" =>
          /\ isShowingMore' = ~isShowingMore
          /\ pending' = pending
          /\ lastCall'.trace = <<"renderFn">>
          /\ rendered'[1].isShowingMore = isShowingMore'
          /\ rendered'[1].isFromSearch = FALSE

\* C6 (as stated): toggleShowMore flips the mode and replays the most recent
\* primary render; the payload's items are the first getCurrentLimit() facet
\* values of that render's results.
C6_ToggleItemsAreFacetValues ==
    [][/\ ToggleReplays
       /\ lastCall'.name = "toggleShowMore" =>
             rendered'[1].items
                 = FirstFacetItems(lastRenderOptions[1],
                                   LimitOf(widgetParams, isShowingMore'))]_vars

\* C6 (amended): toggleShowMore flips the mode and replays the most recent
\* primary render; the payload's items are transformItems applied to the
\* first getCurrentLimit() facet values of that render's results.
C6_ToggleShowMore ==
    [][/\ ToggleReplays
       /\ lastCall'.name = "toggleShowMore" =>
             rendered'[1].items
                 = transformItems(widgetParams,
                       FirstFacetItems(lastRenderOptions[1],
                                       LimitOf(widgetParams, isShowingMore')))]_vars

C6_Witness ==
    /\ lastCall.name = "toggleShowMore"
    /\ isShowingMore
    /\ widgetParams.transformItems = "dropLast"
    /\ Len(getFacetValues(lastRenderOptions[1].results)) > widgetParams.showMoreLimit
    /\ Len(rendered[1].items) = widgetParams.showMoreLimit - 1
    /\ rendered[1].isShowingMore

\* C7: sub-searches in flight are neither de-duplicated nor cancelled: issuing
\* one keeps the others, a resolution removes only the resolved one, and every
\* resolution renders its own items, also when a sub-search issued later has
\* resolved before it.
C7_LastResolvedWins ==
    [][/\ (lastCall'.name = "searchForItems" /\ lastCall'.request.query # "") =>
             /\ Len(pending') = Len(pending) + 1
             /\ \A j \in DOMAIN pending : pending'[j] = pending[j]
       /\ lastCall'.name = "resolve" =>
             /\ rendered'[1].items
                    = transformItems(widgetParams, FacetHitItems(lastCall'.request))
             /\ rendered'[1].isFromSearch
             /\ \E i \in DOMAIN pending :
                   /\ pending[i] = lastCall'.request
                   /\ Len(pending') = Len(pending) - 1
                   /\ \A j \in DOMAIN pending' :
                         /\ pending'[j].query = pending[IF j < i THEN j ELSE j + 1].query
                         /\ pending'[j].maxFacetHits
                                = pending[IF j < i THEN j ELSE j + 1].maxFacetHits]_vars

C7_Witness ==
    /\ lastCall.name = "resolve"
    /\ lastCall.request.query = "a"
    /\ lastCall.overtaken
    /\ pending = <<>>
    /\ rendered[1].isFromSearch
    /\ rendered[1].items[1].value = "Apple"

\* C8: issuing a sub-search and the resolution of one leave the cached items,
\* the exhaustiveness flag, the paginator mode and the recorded render as the
\* last primary render or toggle set them.
C8_SubSearchKeepsState ==
    [][lastCall'.name \in {"searchForItems", "resolve"} =>
          /\ lastResultsFromMainSearch' = lastResultsFromMainSearch
          /\ hasExhaustiveItems' = hasExhaustiveItems
          /\ isShowingMore' = isShowingMore
          /\ lastRenderOptions' = lastRenderOptions]_vars

C8_Witness ==
    /\ lastCall.name = "resolve"
    /\ lastCall.overtaken
    /\ isShowingMore
    /\ lastResultsFromMainSearch # <<>>
    /\ rendered[1].items # lastResultsFromMainSearch
    /\ ~hasExhaustiveItems

\* C9: searchForItems('') issues no sub-search and renders at once, not from
\* a search, the items cached by the most recent primary render or toggle
\* replay (none before the first primary render), leaving the sub-searches in
\* flight as they are.
C9_EmptyQuery ==
    [][(lastCall'.name = "searchForItems" /\ lastCall'.request.query = "") =>
          /\ lastCall'.trace = <<"renderFn">>
          /\ pending' = pending
          /\ rendered'[1].isFromSearch = FALSE
          /\ rendered'[1].isFirstRender = FALSE
          /\ rendered'[1].items = lastResultsFromMainSearch
          /\ rendered'[1].items
                 = IF lastRenderOptions = <<>> THEN <<>>
                   ELSE transformItems(widgetParams,
                            FirstFacetItems(lastRenderOptions[1],
                                            LimitOf(widgetParams, isShowingMore)))]_vars

C9_Witness ==
    /\ lastCall.name = "searchForItems"
    /\ lastCall.request.query = ""
    /\ pending # <<>>
    /\ Len(rendered[1].items) = widgetParams.limit
    /\ ~rendered[1].isFromSearch

\* A non-empty searchForItems(q) makes one searchForFacetValues call for
\* (attribute, q, getCurrentLimit()) and renders nothing; its resolution
\* renders once, from a search, not as first render.
SubSearchCalls ==
    /\ (lastCall'.name = "searchForItems" /\ lastCall'.request.query # "") =>
          /\ lastCall'.trace = <<"searchForFacetValues">>
          /\ lastCall'.request
                 = [attribute |-> attribute, query |-> lastCall'.request.query,
                    maxFacetHits |-> LimitOf(widgetParams, isShowingMore)]
          /\ pending' = Append(pending, lastCall'.request)
          /\ rendered' = rendered
    /\ lastCall'.name = "resolve" =>
          /\ lastCall'.trace = <<"renderFn">>
          /\ rendered'[1].isFromSearch = TRUE
          /\ rendered'[1].isFirstRender = FALSE

\* C10 (as stated): the resolution of a sub-search renders one item per
\* returned facet hit, with label equal to value.
C10_OneItemPerHit ==
    [][/\ SubSearchCalls
       /\ lastCall'.name = "resolve" =>
             rendered'[1].items = FacetHitItems(lastCall'.request)]_vars

\* C10 (amended): the resolution of a sub-search renders transformItems
\* applied to the list of one item per returned facet hit with label equal to
\* value.
C10_SubSearch ==
    [][/\ SubSearchCalls
       /\ lastCall'.name = "resolve" =>
             rendered'[1].items
                 = transformItems(widgetParams, FacetHitItems(lastCall'.request))]_vars

C10_Witness ==
    /\ lastCall.name = "resolve"
    /\ lastCall.request.query = "a"
    /\ lastCall.request.maxFacetHits = widgetParams.showMoreLimit
    /\ widgetParams.showMoreLimit > widgetParams.limit
    /\ widgetParams.transformItems = "addOne"
    /\ Len(rendered[1].items) = widgetParams.showMoreLimit + 1

\* C11: before any primary render the exhaustiveness flag is true; after a
\* primary render it is (count <= currentLimit) when the query state's
\* maxValuesPerFacet is greater than currentLimit, (count < currentLimit)
\* otherwise, with currentLimit the paginator's limit at that render and
\* count the number of facet values returned, before slicing.
C11_Exhaustiveness ==
    [][/\ lastRenderOptions = <<>> => hasExhaustiveItems
       /\ lastRenderOptions' = <<>> => hasExhaustiveItems'
       /\ lastCall'.name = "render" =>
             LET results == lastCall'.options[1].results
                 count == IF results.defined THEN Len(results.values) ELSE 0
                 config == lastCall'.options[1].maxValuesPerFacet
                 currentLimit == LimitOf(widgetParams, isShowingMore)
             IN  hasExhaustiveItems'
                     = IF config # Undefined /\ config > currentLimit
                       THEN count <= currentLimit
                       ELSE count < currentLimit]_vars

C11_Witness ==
    /\ lastCall.name = "render"
    /\ isShowingMore
    /\ lastCall.options[1].maxValuesPerFacet > widgetParams.showMoreLimit
    /\ Len(lastCall.options[1].results.values) = widgetParams.showMoreLimit
    /\ hasExhaustiveItems
    /\ rendered[1].hasExhaustiveItems

\* A step in which the rendering callback is invoked.
Renders == lastCall'.name \in {"init", "render", "toggleShowMore", "resolve"}
               \/ (lastCall'.name = "searchForItems" /\ lastCall'.request.query = "")

\* C12: in every payload handed to the rendering callback canToggleShowMore
\* is canShowMore \/ canShowLess, with canShowMore = showMore /\ ~isFromSearch
\* /\ ~hasExhaustiveItems and canShowLess = isShowingMore /\ (number of items
\* cached by the last primary render) > limit, on the connector state at that
\* render.
C12_CanToggleShowMore ==
    [][Renders =>
          LET payload == rendered'[1]
              canShowMore == /\ widgetParams.showMore
                             /\ ~payload.isFromSearch
                             /\ ~hasExhaustiveItems'
              canShowLess == /\ isShowingMore'
                             /\ Len(lastResultsFromMainSearch') > widgetParams.limit
          IN  /\ lastCall'.trace = <<"renderFn">>
              /\ payload.canToggleShowMore = (canShowMore \/ canShowLess)
              /\ payload.isShowingMore = isShowingMore'
              /\ payload.hasExhaustiveItems = hasExhaustiveItems']_vars

C12_Witness ==
    /\ lastCall.name = "resolve"
    /\ widgetParams.showMore
    /\ ~hasExhaustiveItems
    /\ rendered[1].isFromSearch
    /\ rendered[1].canToggleShowMore
    /\ Len(lastResultsFromMainSearch) > widgetParams.limit

\* C13: the factory throws, returning no widget and without a call of the
\* rendering callback, exactly when `attribute` is missing or empty, or
\* `operator` (default "or") is neither "and" nor "or", or showMore is true
\* and showMoreLimit (default 20) <= limit (default 10); otherwise it returns
\* a widget, in particular when showMore is false and showMoreLimit <= limit.
C13_ConstructionErrors ==
    [][lastCall'.name = "construct" =>
          LET options == lastCall'.options[1]
              operator == IF options.operator = <<>> THEN "or"
                          ELSE options.operator[1]
              limit == IF options.limit = <<>> THEN 10 ELSE options.limit[1]
              showMoreLimit == IF options.showMoreLimit = <<>> THEN 20
                               ELSE options.showMoreLimit[1]
              showMore == options.showMore = <<TRUE>>
              fails == \/ options.attribute \in {<<>>, <<"">>}
                       \/ operator \notin {"and", "or"}
                       \/ (showMore /\ showMoreLimit <= limit)
          IN  IF fails
              THEN /\ lastCall'.trace = <<"throw">>
                   /\ phase' = "UNCONSTRUCTED"
                   /\ widgetParams' = <<>>
                   /\ rendered' = <<>>
              ELSE /\ lastCall'.trace = <<>>
                   /\ phase' = "UNINIT"
                   /\ widgetParams'.operator = operator
                   /\ widgetParams'.limit = limit
                   /\ widgetParams'.showMoreLimit = showMoreLimit
                   /\ widgetParams'.showMore = showMore
                   /\ rendered' = <<>>]_vars

C13_Witness ==
    /\ lastCall.name = "construct"
    /\ lastCall.trace = <<"throw">>
    /\ lastCall.options[1].attribute = <<attribute>>
    /\ lastCall.options[1].operator = <<>>
    /\ lastCall.options[1].showMore = <<TRUE>>
    /\ lastCall.options[1].limit = <<>>
    /\ lastCall.options[1].showMoreLimit = <<DefaultLimit>>
    /\ phase = "UNCONSTRUCTED"

\* C14: init, which the host calls once per instance, renders with
\* isFirstRender true, no items and isFromSearch false; every other call of
\* the rendering callback (primary render, toggle replay, searchForItems('')
\* and resolved sub-search) passes isFirstRender false.
C14_FirstRenderOnce ==
    [][/\ phase' = "UNINIT" => phase = "UNINIT"
       /\ lastCall'.name = "init" =>
             /\ phase = "UNINIT" /\ phase' = "READY"
             /\ lastCall'.trace = <<"renderFn">>
             /\ rendered'[1].isFirstRender
             /\ rendered'[1].items = <<>>
             /\ ~rendered'[1].isFromSearch
       /\ (Renders /\ lastCall'.name # "init") =>
             /\ phase # "UNINIT"
             /\ ~rendered'[1].isFirstRender]_vars

C14_Witness ==
    /\ lastCall.name = "render"
    /\ phase = "READY"
    /\ rendered[1].items = <<>>
    /\ ~rendered[1].isFromSearch
    /\ ~rendered[1].isFirstRender
    /\ pending = <<>>

\* What refine(newParams) does besides writing the keys of newParams: one
\* setState and one search, the stored parameters replaced by newParams, the
\* keys stored before and absent from newParams unset (also those of the
\* refine just before), every key in neither left as it was.
RefineReplaces ==
    lastCall'.name = "refine" =>
        LET stored == widgetParams.searchParameters
            new == lastCall'.options[1]
        IN  /\ lastCall'.trace = <<"setState", "search">>
            /\ widgetParams'.searchParameters = new
            /\ \A k \in (DOMAIN stored) \ (DOMAIN new) :
                   ~IsSet(searchParameters', k)
            /\ lastCall.name = "refine" =>
                   \A k \in (DOMAIN lastCall.options[1]) \ (DOMAIN new) :
                       ~IsSet(searchParameters', k)
            /\ \A k \in (DOMAIN searchParameters) \ (DOMAIN stored \cup DOMAIN new) :
                   /\ k \in DOMAIN searchParameters'
                   /\ searchParameters'[k] = searchParameters[k]
            /\ \A k \in DOMAIN searchParameters' :
                   k \in (DOMAIN searchParameters) \cup (DOMAIN new)

\* C15 (as stated): after refine(newParams) every key of newParams holds the
\* value newParams gives it (no value for a key given as undefined).
C15_KeysHoldNewValues ==
    [][/\ RefineReplaces
       /\ lastCall'.name = "refine" =>
             \A k \in DOMAIN lastCall'.options[1] :
                 IF lastCall'.options[1][k] = Undefined
                 THEN ~IsSet(searchParameters', k)
                 ELSE /\ IsSet(searchParameters', k)
                      /\ searchParameters'[k] = lastCall'.options[1][k]]_vars

\* C15 (amended): after refine(newParams) every key newParams gives a defined
\* value holds that value; a key newParams gives as undefined is not written:
\* it is unset when the stored parameters had it and keeps its value in the
\* query state otherwise.
C15_Refine ==
    [][/\ RefineReplaces
       /\ lastCall'.name = "refine" =>
             \A k \in DOMAIN lastCall'.options[1] :
                 IF lastCall'.options[1][k] # Undefined
                 THEN /\ IsSet(searchParameters', k)
                      /\ searchParameters'[k] = lastCall'.options[1][k]
                 ELSE IF k \in DOMAIN widgetParams.searchParameters
                 THEN ~IsSet(searchParameters', k)
                 ELSE /\ IsSet(searchParameters', k) = IsSet(searchParameters, k)
                      /\ IsSet(searchParameters, k) =>
                             searchParameters'[k] = searchParameters[k]]_vars

C15_Witness ==
    /\ lastCall.name = "refine"
    /\ lastCall.params.searchParameters = [k \in {"hitsPerPage"} |-> 1]
    /\ widgetParams.searchParameters = [k \in {"distinct"} |-> 2]
    /\ ~IsSet(searchParameters, "hitsPerPage")
    /\ IsSet(searchParameters, "distinct")
    /\ searchParameters["distinct"] = 2

\* C16: dispose calls the unmount hook and returns the query state with the
\* keys of the stored parameters (the initial ones or those of the last
\* refine) unset and every other key as it was; after
\* getWidgetSearchParameters then dispose no key of the stored parameters is
\* set.
C16_ConfigureDispose ==
    [][/\ lastCall'.name = "dispose" =>
             LET stored == widgetParams.searchParameters
             IN  /\ lastCall'.trace = <<"unmountFn">>
                 /\ widgetParams' = widgetParams
                 /\ \A k \in DOMAIN stored : ~IsSet(searchParameters', k)
                 /\ \A k \in (DOMAIN searchParameters) \ (DOMAIN stored) :
                        /\ k \in DOMAIN searchParameters'
                        /\ searchParameters'[k] = searchParameters[k]
                 /\ \A k \in DOMAIN searchParameters' : k \in DOMAIN searchParameters
       /\ lastCall'.name = "getWidgetSearchParameters" =>
             LET disposed == getInitialSearchParameters(searchParameters', widgetParams)
             IN  /\ \A k \in DOMAIN widgetParams.searchParameters :
                        /\ widgetParams.searchParameters[k] # Undefined =>
                               searchParameters'[k] = widgetParams.searchParameters[k]
                        /\ ~IsSet(disposed, k)
                 /\ \A k \in (DOMAIN searchParameters')
                               \ (DOMAIN widgetParams.searchParameters) :
                        /\ k \in DOMAIN disposed
                        /\ disposed[k] = searchParameters'[k]]_vars

C16_Witness ==
    /\ lastCall.name = "dispose"
    /\ phase = "DISPOSED"
    /\ widgetParams.searchParameters = [k \in {"hitsPerPage"} |-> 1]
    /\ ~IsSet(searchParameters, "hitsPerPage")
    /\ IsSet(searchParameters, "distinct")
    /\ searchParameters["distinct"] = 2
    /\ uiState.configure = [k \in ConfigureKeys |-> IF k = "distinct" THEN 2 ELSE 1]

\* Two query states with the same maxValuesPerFacet, the same facet
\* registration and the same refinements of `attribute`.
SameProjection(s, t) ==
    /\ s.maxValuesPerFacet = t.maxValuesPerFacet
    /\ s.facets = t.facets
    /\ s.disjunctiveFacets = t.disjunctiveFacets
    /\ getConjunctiveRefinements(s, attribute) = getConjunctiveRefinements(t, attribute)
    /\ getDisjunctiveRefinements(s, attribute) = getDisjunctiveRefinements(t, attribute)

\* C17: getWidgetSearchParameters applied to its own output with the same UI
\* state returns the same maxValuesPerFacet, facet registration and
\* refinements of `attribute`: for the output of every call, and across two
\* consecutive calls of the same connector.
C17_Idempotent ==
    [][lastCall'.name = "getWidgetSearchParameters" =>
          /\ uiState' = uiState
          /\ SameProjection(getWidgetSearchParameters(lastCall'.params,
                                                      searchParameters', uiState),
                            searchParameters')
          /\ lastCall'.repeated =>
                 SameProjection(searchParameters', searchParameters)]_vars

C17_Witness ==
    /\ lastCall.name = "getWidgetSearchParameters"
    /\ lastCall.repeated
    /\ lastCall.params.showMore
    /\ searchParameters.maxValuesPerFacet = lastCall.params.showMoreLimit
    /\ uiState.refinementList = [a \in {attribute} |-> <<"Apple", "Sony">>]
    /\ OwnRefinements(lastCall.params, searchParameters) = <<"Apple", "Sony">>

\* C18 (as stated): a connector built with showMore false renders
\* canToggleShowMore false in every payload.
C18_NeverCanToggle ==
    (rendered # <<>> /\ ~widgetParams.showMore) => ~rendered[1].canToggleShowMore

\* C18 (amended): a connector built with showMore false renders
\* canToggleShowMore false in every payload while the paginator is in base
\* mode; once toggleShowMore has put it in expanded mode canToggleShowMore is
\* true exactly when the last primary render cached more than `limit` items.
C18_ShowMoreDisabled ==
    (rendered # <<>> /\ ~widgetParams.showMore) =>
        /\ ~isShowingMore => ~rendered[1].canToggleShowMore
        /\ isShowingMore =>
               rendered[1].canToggleShowMore
                   = (Len(lastResultsFromMainSearch) > widgetParams.limit)
        /\ rendered[1].isShowingMore = isShowingMore

C18_Witness ==
    /\ lastCall.name = "render"
    /\ ~widgetParams.showMore
    /\ ~isShowingMore
    /\ ~hasExhaustiveItems
    /\ Len(getFacetValues(lastCall.options[1].results)) > widgetParams.showMoreLimit
    /\ Len(rendered[1].items) = widgetParams.limit
    /\ rendered[1].canRefine
    /\ ~rendered[1].canToggleShowMore

\* C19: dispose cancels nothing.  It leaves the sub-searches in flight and
\* the recorded render as they are and renders nothing; after it every
\* sub-search in flight can still resolve, and its resolution renders once,
\* from a search; toggleShowMore can still be called and replays the last
\* primary render in the other mode.
C19_DisposeCancelsNothing ==
    /\ [](phase = "DISPOSED" =>
             /\ \A i \in DOMAIN pending : ENABLED Resolve(i)
             /\ lastRenderOptions # <<>> => ENABLED ToggleShowMore)
    /\ [][/\ lastCall'.name = "dispose" =>
               /\ phase' = "DISPOSED"
               /\ pending' = pending
               /\ lastRenderOptions' = lastRenderOptions
               /\ isShowingMore' = isShowingMore
               /\ lastResultsFromMainSearch' = lastResultsFromMainSearch
               /\ rendered' = rendered
               /\ lastCall'.trace[1] = "unmountFn"
          /\ phase = "DISPOSED" => phase' = "DISPOSED"
          /\ (phase = "DISPOSED" /\ lastCall'.name = "resolve") =>
               /\ lastCall'.trace = <<"renderFn">>
               /\ rendered'[1].isFromSearch
               /\ rendered'[1].items
                      = transformItems(widgetParams, FacetHitItems(lastCall'.request))
               /\ Len(pending') = Len(pending) - 1
          /\ (phase = "DISPOSED" /\ lastCall'.name = "toggleShowMore") =>
               /\ lastCall'.trace = <<"renderFn">>
               /\ isShowingMore' = ~isShowingMore
               /\ ~rendered'[1].isFromSearch
               /\ rendered'[1].isShowingMore = isShowingMore'
               /\ rendered'[1].items
                      = transformItems(widgetParams,
                            FirstFacetItems(lastRenderOptions[1],
                                            LimitOf(widgetParams, isShowingMore')))]_vars

C19_Witness ==
    /\ phase = "DISPOSED"
    /\ lastCall.name = "resolve"
    /\ lastCall.overtaken
    /\ rendered[1].isFromSearch
    /\ rendered[1].items # <<>>
    /\ searchParameters.maxValuesPerFacet = Undefined
    /\ isShowingMore

\* C20: with a transformItems that adds no item, the items cached from the
\* last primary search are never more than the paginator's current limit
\* (limit in base mode, showMoreLimit in expanded mode), and neither are the
\* items of a payload that is not from a search.
C20_CacheWithinLimit ==
    widgetParams.transformItems \in {"identity", "dropLast"} =>
        /\ Len(lastResultsFromMainSearch) <= LimitOf(widgetParams, isShowingMore)
        /\ (rendered # <<>> /\ ~rendered[1].isFromSearch) =>
               /\ Len(rendered[1].items) <= LimitOf(widgetParams, isShowingMore)
               /\ rendered[1].isShowingMore = isShowingMore

C20_Witness ==
    /\ lastCall.name = "searchForItems"
    /\ lastCall.request.query = ""
    /\ widgetParams.transformItems = "identity"
    /\ isShowingMore
    /\ Len(getFacetValues(lastRenderOptions[1].results)) > widgetParams.showMoreLimit
    /\ Len(lastResultsFromMainSearch) = widgetParams.showMoreLimit
    /\ rendered[1].items = lastResultsFromMainSearch

====
